---- MODULE Spec2Model ----
(***************************************************************************)
(* relm-test: synthetic input helpers and stream observers that busy-poll  *)
(* the single-threaded toolkit loop (src/relm-test/src/lib.rs).            *)
(*                                                                         *)
(* One test thread runs the helpers.  Injected input travels through the   *)
(* display server (xqueue) into the toolkit's event queue (gqueue);        *)
(* run_loop dispatches what has arrived to the widgets' signal handlers.   *)
(* A relm handler on "clicked" emits the widget's message on the stream.   *)
(***************************************************************************)
EXTENDS Integers, Sequences, FiniteSets, TLC

\* ------------------------------------------------------------------ bounds
MaxCalls == 2
MaxText == 2
MaxObservers == 1
MaxEmits == 2
MaxClicks == 1
MaxWaits == 2
MaxFair == 1
MaxListMsgs == 4
MaxCount == 1

\* ------------------------------------------------------------- vocabulary
Widgets == {"button", "tool"}
KeyWidgets == {"entry"}
Signals == {"clicked", "button_press", "button_release", "key_press", "key_release"}
Variants == {"Add", "Remove"}
Chars == {"a", "B"}
None == [variant |-> "None", id |-> 0]
NoRet == [obs |-> 0, msg |-> None]

VARIABLES
    pc,         \* position of the test thread
    cur,        \* the running helper call: widget, observer, loop index, ...
    calls,      \* input helper calls started
    handlers,   \* signal handlers connected by the helpers, never disconnected
    flags,      \* flags[h]: the gtk_test::Observer cell of handler h
    fired,      \* history: the observed signal fired since the last connect
    xqueue,     \* injected input not yet delivered to the toolkit
    gqueue,     \* input delivered to the toolkit, not yet dispatched
    observers,  \* relm observers: predicate, result cell, borrow state
    events,     \* messages emitted on the stream, not yet given to update
    emitted,    \* history: variant and source call of every message emitted
    processed,  \* history: how many messages update has been given
    injected,   \* history: characters injected by the running enter_keys
    waits,      \* Observer::wait calls started
    ret,        \* what the running Observer::wait returned
    bound,      \* the fields bound by the last relm_observer_wait!
    panic,      \* "none" or the panic message that ended the test
    missed,     \* history: emissions a helper's handler kept from the application
    counters,   \* widget-list: Win.counters, the Counter components
    hbox,       \* widget-list: the children of Win.hbox
    quit,       \* widget-list: gtk::main_quit was called
    log         \* history: the messages Win::update was given

testVars == <<pc, cur, calls, handlers, flags, fired, xqueue, gqueue, observers,
          events, emitted, processed, injected, waits, ret, bound, panic, missed>>

listVars == <<counters, hbox, quit, log>>

vars == <<testVars, listVars>>

\* ---------------------------------------------------------- toolkit world
\* The part of the state a dispatch can change.
World == [handlers |-> handlers, flags |-> flags, fired |-> fired,
          watch |-> IF cur.h > 0 THEN <<cur.w, cur.sig>> ELSE <<>>,
          observers |-> observers, events |-> events, emitted |-> emitted,
          processed |-> processed, panic |-> panic, missed |-> missed]

SetWorld(s) ==
    \E t \in {s} :
        /\ handlers' = t.handlers
        /\ flags' = t.flags
        /\ fired' = t.fired
        /\ observers' = t.observers
        /\ events' = t.events
        /\ emitted' = t.emitted
        /\ processed' = t.processed
        /\ panic' = t.panic
        /\ missed' = t.missed

IsToolButton(w) == w = "tool"

\* connect!(relm, add_button, connect_clicked(_), Add): the message a click
\* on the widget emits.
AppMsg(w) == IF w = "button" THEN "Add" ELSE "Remove"

\* A slip: the closure records every message, whatever the predicate says.
ObserveCallbackAny(o, msg) ==
    IF o.borrow # 0
    THEN [o EXCEPT !.poisoned = TRUE]
    ELSE [o EXCEPT !.result = msg]

\* A slip: the closure records a message only while the cell is empty.
ObserveCallbackKeepFirst(o, msg) ==
    IF msg.variant \in o.pred
    THEN IF o.borrow # 0
         THEN [o EXCEPT !.poisoned = TRUE]
         ELSE IF o.result = None THEN [o EXCEPT !.result = msg] ELSE o
    ELSE o

\* The closure given to stream.observe: a matching message replaces the
\* recorded one; borrow_mut panics while the cell is borrowed.
ObserveCallback(o, msg) ==
    IF msg.variant \in o.pred
    THEN IF o.borrow # 0
         THEN [o EXCEPT !.poisoned = TRUE]
         ELSE [o EXCEPT !.result = msg]
    ELSE o

\* stream.emit: every observer sees the message, then it is queued for update.
Emit(s, variant, src) ==
    LET msg == [variant |-> variant, id |-> Len(s.emitted) + 1]
        obs == [i \in DOMAIN s.observers |-> ObserveCallback(s.observers[i], msg)]
    IN  IF s.panic # "none" THEN s
        ELSE [s EXCEPT !.observers = obs,
                       !.events = Append(s.events, msg),
                       !.emitted = Append(s.emitted, [variant |-> variant, src |-> src]),
                       !.panic = IF \E i \in DOMAIN obs : obs[i].poisoned
                                 THEN "already borrowed: BorrowMutError"
                                 ELSE "none"]

\* A signal emission on a widget runs every handler connected to it: each
\* helper handler sets its own flag (and returns Inhibit(false)); the
\* application's handler on clicked emits its message.
FireSignal(s, w, sig, src) ==
    LET t == [s EXCEPT
                !.flags = [h \in DOMAIN s.flags |->
                             IF s.handlers[h].w = w /\ s.handlers[h].sig = sig
                             THEN TRUE ELSE s.flags[h]],
                !.fired = s.fired \/ <<w, sig>> = s.watch]
    IN  IF sig = "clicked" THEN Emit(t, AppMsg(w), src) ELSE t

\* The signals one input event raises on its target widget, in order.
EventSignals(kind) ==
    CASE kind = "press" -> <<"button_press">>
      [] kind = "release" -> <<"button_release", "clicked">>
      [] kind = "keydown" -> <<"key_press">>
      [] kind = "keyup" -> <<"key_release">>

\* A slip: the closures of the event handlers return Inhibit(true).
HandlerInhibitTrue(sig) == sig # "clicked"

\* What the closure of a helper's handler returns: Inhibit(false) on the four
\* event signals (the closure given to connect_clicked returns nothing).
HandlerInhibit(sig) == FALSE

\* Some helper handler connected to the signal stops the emission.
Inhibited(s, w, sig) ==
    \E h \in DOMAIN s.handlers :
        s.handlers[h].w = w /\ s.handlers[h].sig = sig /\ HandlerInhibit(sig)

\* The signals of one event are raised in order; an inhibited emission
\* reaches neither the application's handlers connected after the helper's
\* nor the widget's own handler, which would raise the signals that follow.
RECURSIVE FireAll(_, _, _)
FireAll(s, ev, sigs) ==
    IF sigs = <<>> THEN s
    ELSE CHOOSE r \in {IF Inhibited(s, ev.w, Head(sigs))
                        THEN [t EXCEPT !.missed = @ + 1]
                        ELSE FireAll(t, ev, Tail(sigs)) :
                          t \in {FireSignal(s, ev.w, Head(sigs), ev.src)}} :
            TRUE

\* The events of the queue are dispatched in order, each on the state the
\* one before it left (t is that state, evaluated once).
RECURSIVE DispatchAll(_, _)
DispatchAll(s, q) ==
    IF q = <<>> THEN s
    ELSE CHOOSE r \in {DispatchAll(t, Tail(q)) :
                         t \in {FireAll(s, Head(q), EventSignals(Head(q).kind))}} :
            TRUE

\* gtk_test::run_loop: while events_pending { main_iteration }: every input
\* event that has arrived is dispatched, then every queued message is given
\* to update.
RunLoop(s, q) ==
    LET t == DispatchAll(s, q)
    IN  IF t.panic # "none" THEN t
        ELSE [t EXCEPT !.processed = t.processed + Len(t.events), !.events = <<>>]

\* ------------------------------------------------------------ input helpers
MouseHelpers == {"click", "double_click"}
KeyHelpers == {"key_press", "key_release", "enter_key"}

\* A slip: key_release connects the key-press handler of key_press.
HelperSignalPasted(helper, w) ==
    CASE helper = "click" -> IF IsToolButton(w) THEN "clicked" ELSE "button_press"
      [] helper = "double_click" -> "button_release"
      [] OTHER -> "key_press"

\* The signal whose handler the helper connects.
HelperSignal(helper, w) ==
    CASE helper = "click" -> IF IsToolButton(w) THEN "clicked" ELSE "button_press"
      [] helper = "double_click" -> "button_release"
      [] helper = "key_press" -> "key_press"
      [] helper = "key_release" -> "key_release"
      [] helper = "enter_key" -> "key_release"
      [] helper = "enter_keys" -> "key_release"

\* An input event: its target, its kind and (history) the call that injected it.
Ev(w, kind, src) == [w |-> w, kind |-> kind, src |-> src]

\* enigo.key_sequence of one character: an upper-case character is typed
\* with the shift key held.
KeySequence(w, c, src) ==
    IF c = "B"
    THEN <<Ev(w, "keydown", src), Ev(w, "keydown", src),
           Ev(w, "keyup", src), Ev(w, "keyup", src)>>
    ELSE <<Ev(w, "keydown", src), Ev(w, "keyup", src)>>

\* A slip: click only presses the button (mouse_down for mouse_click).
HelperEventsDownOnly(helper, w, src) ==
    CASE helper = "click" -> <<Ev(w, "press", src)>>
      [] helper = "double_click" -> <<Ev(w, "press", src), Ev(w, "release", src)>>
      [] helper = "key_press" -> <<Ev(w, "keydown", src)>>
      [] helper = "key_release" -> <<Ev(w, "keyup", src)>>
      [] helper = "enter_key" -> <<Ev(w, "keydown", src), Ev(w, "keyup", src)>>

\* The input the helper injects once its handler is connected.
HelperEvents(helper, w, src) ==
    CASE helper = "click" -> <<Ev(w, "press", src), Ev(w, "release", src)>>
      [] helper = "double_click" -> <<Ev(w, "press", src), Ev(w, "release", src)>>
      [] helper = "key_press" -> <<Ev(w, "keydown", src)>>
      [] helper = "key_release" -> <<Ev(w, "keyup", src)>>
      [] helper = "enter_key" -> <<Ev(w, "keydown", src), Ev(w, "keyup", src)>>

\* A slip: the flag is set when the handler is connected, outside the closure.
GtkObserverNewSet(s, w, sig) ==
    [s EXCEPT !.flags = Append(s.flags, TRUE),
              !.fired = FALSE,
              !.watch = <<w, sig>>,
              !.handlers = Append(s.handlers, [w |-> w, sig |-> sig])]

\* gtk_observer_new!: a fresh Observer (flag false) and a handler on the
\* widget's signal that sets it.
GtkObserverNew(s, w, sig) ==
    [s EXCEPT !.flags = Append(s.flags, FALSE),
              !.fired = FALSE,
              !.watch = <<w, sig>>,
              !.handlers = Append(s.handlers, [w |-> w, sig |-> sig])]

\* Where the helper goes once observer.wait() has returned.
AfterWait(helper) ==
    CASE helper \in {"click", "double_click"} -> "post_wait"
      [] helper = "enter_keys" -> "ek_iter"
      [] OTHER -> "ret"

\* A slip: the rest of the text is typed in one key_sequence.
EnterKeysChunkRest(text, i) == SubSeq(text, i + 1, Len(text))

\* The characters enter_keys injects in the iteration that follows i waits.
EnterKeysChunk(text, i) == <<text[i + 1]>>

Texts == UNION {[1..n -> Chars] : n \in 0..MaxText}

NoCall == [helper |-> "none", w |-> "button", sig |-> "none", h |-> 0,
           text |-> <<>>, i |-> 0, done |-> 0, obs |-> 0, expect |-> "None"]

Init ==
    /\ pc = "idle"
    /\ cur = NoCall
    /\ calls = 0
    /\ handlers = <<>>
    /\ flags = <<>>
    /\ fired = FALSE
    /\ xqueue = <<>>
    /\ gqueue = <<>>
    /\ observers = <<>>
    /\ events = <<>>
    /\ emitted = <<>>
    /\ processed = 0
    /\ injected = <<>>
    /\ waits = 0
    /\ ret = NoRet
    /\ bound = -1
    /\ panic = "none"
    /\ missed = 0
    /\ counters = <<>>
    /\ hbox = <<>>
    /\ quit = FALSE
    /\ log = <<>>

Running == panic = "none"

\* The display server hands the oldest injected event to the toolkit.
XDeliver ==
    /\ xqueue # <<>>
    /\ gqueue' = Append(gqueue, Head(xqueue))
    /\ xqueue' = Tail(xqueue)
    /\ UNCHANGED listVars
    /\ UNCHANGED <<pc, cur, calls, handlers, flags, fired, observers, events,
                   emitted, processed, injected, waits, ret, bound, panic, missed>>

\* click, double_click, key_press, key_release, enter_key up to the first
\* poll: connect the handler, move the pointer (mouse_move runs the loop) or
\* focus the widget, inject the input.
HelperBegin(helper, w) ==
    /\ pc = "idle" /\ Running
    /\ LET s0 == World
           q0 == gqueue
           sig == HelperSignal(helper, w)
           s1 == GtkObserverNew(s0, w, sig)
           s2 == IF helper \in MouseHelpers THEN RunLoop(s1, q0) ELSE s1
       IN  /\ SetWorld(s2)
           /\ gqueue' = IF helper \in MouseHelpers THEN <<>> ELSE q0
           /\ xqueue' = xqueue \o HelperEvents(helper, w, calls + 1)
           /\ cur' = [NoCall EXCEPT !.helper = helper, !.w = w, !.sig = sig,
                                    !.h = Len(s1.handlers)]
    /\ pc' = IF helper = "double_click" THEN "dc_loop" ELSE "gwait"
    /\ calls' = calls + 1
    /\ UNCHANGED listVars
    /\ UNCHANGED <<injected, waits, ret, bound>>

\* double_click: run_loop() between the clicks, then the second click.
DoubleClickSecond ==
    /\ pc = "dc_loop" /\ Running
    /\ SetWorld(RunLoop(World, gqueue))
    /\ gqueue' = <<>>
    /\ xqueue' = xqueue \o HelperEvents("double_click", cur.w, calls)
    /\ pc' = "gwait"
    /\ UNCHANGED listVars
    /\ UNCHANGED <<cur, calls, injected, waits, ret, bound>>

\* gtk_test::Observer::wait, one turn of the loop: the flag is not set, so
\* run_loop().
GWaitIter ==
    /\ pc = "gwait" /\ Running
    /\ ~flags[cur.h]
    /\ SetWorld(RunLoop(World, gqueue))
    /\ gqueue' = <<>>
    /\ UNCHANGED listVars
    /\ UNCHANGED <<pc, cur, calls, xqueue, injected, waits, ret, bound>>

\* gtk_test::Observer::wait returns: the flag is set.
GWaitDone ==
    /\ pc = "gwait" /\ Running
    /\ flags[cur.h]
    /\ pc' = AfterWait(cur.helper)
    /\ cur' = [cur EXCEPT !.done = @ + 1]
    /\ UNCHANGED listVars
    /\ UNCHANGED <<calls, handlers, flags, fired, xqueue, gqueue, observers,
                   events, emitted, processed, injected, waits, ret, bound, panic, missed>>

\* How often click and double_click run the loop after the wait:
\* gtk_test::wait(0), then run_loop().
PostWaitLoops == 2

\* click, double_click after the wait: gtk_test::wait(0); run_loop().
PostWait ==
    /\ pc = "post_wait" /\ Running
    /\ SetWorld(RunLoop(World, gqueue))
    /\ gqueue' = <<>>
    /\ cur' = [cur EXCEPT !.i = @ + 1]
    /\ pc' = IF cur.i + 1 >= PostWaitLoops THEN "ret" ELSE "post_wait"
    /\ UNCHANGED listVars
    /\ UNCHANGED <<calls, xqueue, injected, waits, ret, bound>>

\* enter_keys up to its loop: wait_for_draw, focus.
EnterKeysBegin(w, text) ==
    /\ pc = "idle" /\ Running
    /\ cur' = [NoCall EXCEPT !.helper = "enter_keys", !.w = w, !.text = text]
    /\ injected' = <<>>
    /\ pc' = "ek_iter"
    /\ calls' = calls + 1
    /\ UNCHANGED listVars
    /\ UNCHANGED <<handlers, flags, fired, xqueue, gqueue, observers, events,
                   emitted, processed, waits, ret, bound, panic, missed>>

RECURSIVE KeySequences(_, _, _)
KeySequences(w, cs, src) ==
    IF cs = <<>> THEN <<>>
    ELSE KeySequence(w, Head(cs), src) \o KeySequences(w, Tail(cs), src)

\* enter_keys, one turn of `for char in text.chars()`: a new observer on
\* key-release, then the character; past the last character it returns.
EnterKeysIter ==
    /\ pc = "ek_iter" /\ Running
    /\ IF Len(injected) < Len(cur.text)
       THEN LET sig == HelperSignal("enter_keys", cur.w)
                s1 == GtkObserverNew(World, cur.w, sig)
                cs == EnterKeysChunk(cur.text, Len(injected))
            IN  /\ SetWorld(s1)
                /\ xqueue' = xqueue \o KeySequences(cur.w, cs, calls)
                /\ injected' = injected \o cs
                /\ cur' = [cur EXCEPT !.h = Len(s1.handlers), !.sig = sig,
                                      !.i = @ + 1]
                /\ pc' = "gwait"
       ELSE /\ pc' = "ret"
            /\ UNCHANGED <<cur, handlers, flags, fired, xqueue, observers,
                           events, emitted, processed, injected, panic, missed>>
    /\ UNCHANGED listVars
    /\ UNCHANGED <<calls, gqueue, waits, ret, bound>>

\* The helper (or Observer::wait, or relm_observer_wait!) returns to the test.
Return ==
    /\ pc = "ret" /\ Running
    /\ pc' = "idle"
    /\ cur' = NoCall
    /\ fired' = FALSE
    /\ bound' = -1
    /\ ret' = NoRet
    /\ UNCHANGED listVars
    /\ UNCHANGED <<calls, handlers, flags, xqueue, gqueue, observers, events,
                   emitted, processed, injected, waits, panic, missed>>

\* ----------------------------------------------------------- relm observers
\* The predicates given to Observer::new; relm_observer_new! gives the
\* predicate of one pattern.
Preds == (SUBSET Variants) \ {{}}

\* Observer::new: an empty result cell and a callback observing the stream.
ObserverNew(pred) ==
    /\ pc = "idle" /\ Running
    /\ observers' = Append(observers,
           [pred |-> pred, result |-> None, borrow |-> 0, poisoned |-> FALSE,
            createdAt |-> Len(emitted), taken |-> 0])
    /\ UNCHANGED listVars
    /\ UNCHANGED <<pc, cur, calls, handlers, flags, fired, xqueue, gqueue,
                   events, emitted, processed, injected, waits, ret, bound, panic, missed>>

\* The test (or a component) emits a message on the stream.
EmitMsg(variant) ==
    /\ pc = "idle" /\ Running
    /\ SetWorld(Emit(World, variant, 0))
    /\ UNCHANGED listVars
    /\ UNCHANGED <<pc, cur, calls, xqueue, gqueue, injected, waits, ret, bound>>

\* The test lets the loop run between two helper calls.
TestRunLoop ==
    /\ pc = "idle" /\ Running
    /\ gqueue # <<>> \/ events # <<>>
    /\ SetWorld(RunLoop(World, gqueue))
    /\ gqueue' = <<>>
    /\ UNCHANGED listVars
    /\ UNCHANGED <<pc, cur, calls, xqueue, injected, waits, ret, bound>>

\* observer.wait() is called, directly or by relm_observer_wait!.
WaitBegin(o) ==
    /\ pc = "idle" /\ Running
    /\ o \in DOMAIN observers
    /\ cur' = [NoCall EXCEPT !.helper = "wait", !.obs = o]
    /\ pc' = "ow_loop"
    /\ waits' = waits + 1
    /\ UNCHANGED listVars
    /\ UNCHANGED <<calls, handlers, flags, fired, xqueue, gqueue, observers,
                   events, emitted, processed, injected, ret, bound, panic, missed>>

\* A slip: the guard of try_borrow() is kept across run_loop().
GuardAfterCheckHeld(o) == [o EXCEPT !.borrow = 1]

\* The borrow state of the result cell once the `if let Ok(ref result) =
\* self.result.try_borrow()` statement is over: the guard is dropped.
GuardAfterCheck(o) == [o EXCEPT !.borrow = 0]

\* A slip: the loop tests is_none() where it means is_some().
ResultIsNone(o) == o.borrow \in {0, 1} /\ o.result = None

\* try_borrow() succeeded and the cell holds a message.
ResultIsSome(o) == o.borrow \in {0, 1} /\ o.result # None

\* Observer::wait, one turn of the loop: no message recorded, so run_loop().
OWaitIter ==
    /\ pc = "ow_loop" /\ Running
    /\ ~ResultIsSome(observers[cur.obs])
    /\ LET s == [World EXCEPT !.observers[cur.obs] = GuardAfterCheck(@)]
       IN  SetWorld(RunLoop(s, gqueue))
    /\ gqueue' = <<>>
    /\ cur' = [cur EXCEPT !.i = 1]
    /\ UNCHANGED listVars
    /\ UNCHANGED <<pc, calls, xqueue, injected, waits, ret, bound>>

\* Observer::wait leaves the loop: a message is recorded.
OWaitBreak ==
    /\ pc = "ow_loop" /\ Running
    /\ ResultIsSome(observers[cur.obs])
    /\ observers' = [observers EXCEPT ![cur.obs] = GuardAfterCheck(@)]
    /\ pc' = "ow_take"
    /\ UNCHANGED listVars
    /\ UNCHANGED <<cur, calls, handlers, flags, fired, xqueue, gqueue, events,
                   emitted, processed, injected, waits, ret, bound, panic, missed>>

\* A slip: the message is cloned out of the cell, not taken.
TakeClone(result) == result

\* Option::take: what it leaves in the cell.
Take(result) == None

\* self.result.borrow_mut().take().expect("Message to take")
OWaitTake ==
    /\ pc = "ow_take" /\ Running
    /\ LET o == observers[cur.obs]
       IN  IF o.borrow # 0
           THEN /\ panic' = "already borrowed: BorrowMutError"
                /\ UNCHANGED <<pc, observers, ret>>
           ELSE /\ observers' = [observers EXCEPT ![cur.obs].result = Take(@),
                                                  ![cur.obs].taken = o.result.id]
                /\ IF o.result = None
                   THEN /\ panic' = "Message to take"
                        /\ UNCHANGED <<pc, ret>>
                   ELSE /\ ret' = [obs |-> cur.obs, msg |-> o.result]
                        /\ pc' = "ow_done"
                        /\ UNCHANGED panic
    /\ UNCHANGED listVars
    /\ UNCHANGED <<cur, calls, handlers, flags, fired, xqueue, gqueue, events,
                   emitted, processed, injected, waits, bound, missed>>

\* Observer::wait returns its message to a direct caller.
WaitReturn ==
    /\ pc = "ow_done" /\ Running
    /\ pc' = "ret"
    /\ UNCHANGED listVars
    /\ UNCHANGED <<cur, calls, handlers, flags, fired, xqueue, gqueue, observers,
                   events, emitted, processed, injected, waits, ret, bound, panic, missed>>

\* A slip: an irrefutable pattern, every message matches.
MacroMatchesAny(variant, msg) == TRUE

\* `if let Variant(name) = msg`: the pattern of the macro matches.
MacroMatches(variant, msg) == msg.variant = variant

\* The fields of a message: each emission carries its own.
MacroFields(msg) == msg.id

\* relm_observer_wait!(let variant(name) = observer), once its one call of
\* observer.wait() has returned: bind the fields of the named variant, or
\* panic.
MacroMatch(variant) ==
    /\ pc = "ow_done" /\ Running
    /\ LET msg == ret.msg
       IN  IF MacroMatches(variant, msg)
           THEN /\ bound' = MacroFields(msg)
                /\ pc' = "ret"
                /\ UNCHANGED panic
           ELSE /\ panic' = "Wrong message type."
                /\ UNCHANGED <<pc, bound>>
    /\ cur' = [cur EXCEPT !.helper = "macro", !.expect = variant]
    /\ UNCHANGED listVars
    /\ UNCHANGED <<calls, handlers, flags, fired, xqueue, gqueue,
                   observers, events, emitted, processed, injected, waits, ret,
                   missed>>

\* ------------------------------------------------------ widget-list example
CounterMsgs == {"Decrement", "Increment"}
WinMsgs == {"Add", "Quit", "Remove"}

\* Counter::model and Counter::view: a new Counter holds 0 and shows "0".
\* id tells the components (and their root widgets) apart.
CounterNew(id) == [id |-> id, counter |-> 0, counter_label |-> "0"]

\* Counter::update: the model counts, the label shows the decimal text.
CounterUpdated(c, event) ==
    LET n == IF event = "Decrement" THEN c.counter - 1 ELSE c.counter + 1
    IN  [c EXCEPT !.counter = n, !.counter_label = ToString(n)]

\* ContainerWidget::add_widget: the root of the new component becomes the
\* last child of the container.
AddWidget(box, id) == Append(box, id)

\* ContainerWidget::remove_widget: the root of the component leaves the
\* container.
RemoveWidget(box, id) == SelectSeq(box, LAMBDA x : x # id)

\* A slip: the new component is not kept.
PushNone(cs, c) == cs

\* Vec::push
Push(cs, c) == Append(cs, c)

\* A slip: remove(0) for pop().
PopFront(cs) ==
    IF cs = <<>> THEN [some |-> FALSE, rest |-> cs]
    ELSE [some |-> TRUE, value |-> cs[1], rest |-> Tail(cs)]

\* Vec::pop: None on an empty vector, else the last element.
Pop(cs) ==
    IF cs = <<>> THEN [some |-> FALSE, rest |-> cs]
    ELSE [some |-> TRUE, value |-> cs[Len(cs)],
          rest |-> SubSeq(cs, 1, Len(cs) - 1)]

\* The Add messages processed so far.
Adds == Cardinality({k \in DOMAIN log : log[k].msg = "Add"})

\* Win::update
WinUpdate(event) ==
    /\ ~quit
    /\ CASE event = "Add" ->
              LET widget == CounterNew(Adds + 1)
              IN  /\ hbox' = AddWidget(hbox, widget.id)
                  /\ counters' = Push(counters, widget)
                  /\ UNCHANGED quit
         [] event = "Quit" ->
              /\ quit' = TRUE
              /\ UNCHANGED <<counters, hbox>>
         [] event = "Remove" ->
              LET p == Pop(counters)
              IN  /\ IF p.some
                     THEN /\ counters' = p.rest
                          /\ hbox' = RemoveWidget(hbox, p.value.id)
                     ELSE UNCHANGED <<counters, hbox>>
                  /\ UNCHANGED quit
    /\ log' = Append(log, [msg |-> event, len |-> Len(counters)])
    /\ UNCHANGED testVars

\* The plus or minus button of the i-th Counter is clicked: Counter::update.
CounterClick(i, event) ==
    /\ ~quit
    /\ i \in DOMAIN counters
    /\ CounterUpdated(counters[i], event).counter \in -MaxCount..MaxCount
    /\ counters' = [counters EXCEPT ![i] = CounterUpdated(@, event)]
    /\ UNCHANGED <<hbox, quit, log>>
    /\ UNCHANGED testVars

\* ------------------------------------------------------------ specification
\* A test of at most n calls of the input helpers.
HelperCalls(n) ==
    \/ \E helper \in MouseHelpers, w \in Widgets :
          calls < n /\ HelperBegin(helper, w)
    \/ \E helper \in KeyHelpers, w \in KeyWidgets :
          calls < n /\ HelperBegin(helper, w)
    \/ \E w \in KeyWidgets, text \in Texts :
          calls < n /\ EnterKeysBegin(w, text)

\* The test thread inside a helper takes its next step.
ThreadStep ==
    \/ DoubleClickSecond
    \/ GWaitIter
    \/ GWaitDone
    \/ PostWait
    \/ EnterKeysIter
    \/ Return

\* The input helpers.
Next ==
    \/ XDeliver
    \/ HelperCalls(MaxCalls)
    \/ ThreadStep
    \/ TestRunLoop

Spec == Init /\ [][Next]_vars

\* The input helpers with the loop run fairly: the display server delivers
\* what was injected, the polling thread keeps polling.
FairNext ==
    \/ XDeliver
    \/ HelperCalls(MaxFair)
    \/ ThreadStep
    \/ TestRunLoop

FairSpec == Init /\ [][FairNext]_vars /\ WF_vars(XDeliver) /\ WF_vars(ThreadStep)

\* A test of at most c clicks and w waits on at most o observers.
ObsCalls(o, c, w) ==
    \/ \E wd \in Widgets : calls < c /\ HelperBegin("click", wd)
    \/ \E pred \in Preds : Len(observers) < o /\ ObserverNew(pred)
    \/ \E i \in 1..o : waits < w /\ WaitBegin(i)

\* The thread polling in Observer::wait, or in click, takes its next step.
ObsThreadStep ==
    \/ GWaitIter
    \/ GWaitDone
    \/ PostWait
    \/ Return
    \/ OWaitIter
    \/ OWaitBreak
    \/ OWaitTake
    \/ WaitReturn

\* The stream observers, with click as the source of toolkit-driven messages.
ObsNext ==
    \/ XDeliver
    \/ ObsCalls(MaxObservers, MaxClicks, MaxWaits)
    \/ \E variant \in Variants : Len(emitted) < MaxEmits /\ EmitMsg(variant)
    \/ ObsThreadStep
    \/ \E variant \in Variants : MacroMatch(variant)
    \/ TestRunLoop

ObsSpec == Init /\ [][ObsNext]_vars

\* Observer::wait with the loop run fairly.
FairObsNext ==
    \/ XDeliver
    \/ ObsCalls(MaxFair, MaxFair, MaxFair)
    \/ ObsThreadStep
    \/ TestRunLoop

FairObsSpec ==
    Init /\ [][FairObsNext]_vars /\ WF_vars(XDeliver) /\ WF_vars(ObsThreadStep)

\* The widget-list example: the window is given at most MaxListMsgs messages.
ListNext ==
    \/ \E event \in WinMsgs : Len(log) < MaxListMsgs /\ WinUpdate(event)
    \/ \E i \in 1..MaxListMsgs, event \in CounterMsgs : CounterClick(i, event)

ListSpec == Init /\ [][ListNext]_vars

\* ------------------------------------------------------------------ claims
Pending == xqueue \o gqueue

\* The message of the running call's click has been given to update.
CallMsgProcessed == \E k \in 1..processed : emitted[k].src = calls

\* C1: click, double_click, key_press, key_release and enter_key return from
\* their wait only after the signal they observe (clicked for a ToolButton
\* and button-press otherwise in click, button-release in double_click,
\* key-press in key_press, key-release in key_release and enter_key) has
\* fired on the widget after this call connected its handler.
C1_ReturnsOnlyAfterSignal ==
    (cur.helper \in MouseHelpers \union KeyHelpers /\ cur.done > 0) =>
        /\ fired
        /\ handlers[cur.h] = [w |-> cur.w, sig |-> cur.sig]
        /\ cur.sig = CASE cur.helper = "click" ->
                            IF cur.w = "tool" THEN "clicked" ELSE "button_press"
                       [] cur.helper = "double_click" -> "button_release"
                       [] cur.helper = "key_press" -> "key_press"
                       [] OTHER -> "key_release"

\* A call has returned although the flag of an earlier call's handler on the
\* same signal was set before.
C1_Witness ==
    /\ pc = "ret" /\ cur.helper \in MouseHelpers \union KeyHelpers /\ fired
    /\ \E h \in 1..(cur.h - 1) : handlers[h] = handlers[cur.h] /\ flags[h]

C4Helpers == {"click", "key_press", "key_release", "enter_key", "enter_keys"}

\* C4: when every injected event is eventually delivered and dispatched,
\* every call of click, key_press, key_release, enter_key and enter_keys
\* eventually returns.
C4_HelpersTerminate ==
    (pc # "idle" /\ cur.helper \in C4Helpers) ~> (pc = "idle")

\* A helper has returned with all of its input dispatched.
C4_Witness ==
    /\ pc = "ret" /\ cur.helper \in C4Helpers /\ cur.done > 0
    /\ Pending = <<>>

\* C5: click may return before the message its click causes is processed;
\* whenever it does, its observer saw its toolkit event and click ran
\* wait(0) and one run_loop, while the release that makes relm emit the
\* message is still to be dispatched.
C5_UnprocessedOnlyBeforeRelease ==
    (pc = "ret" /\ cur.helper = "click" /\ ~CallMsgProcessed) =>
        /\ fired /\ cur.i = PostWaitLoops
        /\ \E k \in DOMAIN Pending : Pending[k] = Ev(cur.w, "release", calls)

\* click has returned; the message of its click is not even emitted.
C5_Witness ==
    /\ pc = "ret" /\ cur.helper = "click" /\ fired
    /\ \A k \in DOMAIN emitted : emitted[k].src # calls
    /\ ~CallMsgProcessed

\* C10: enter_keys injects the characters in text order, one per wait: the
\* next character goes out only after key-release fired after the previous
\* character's observer was connected; the empty text injects nothing and
\* connects no observer.
C10_EnterKeysOneAtATime ==
    cur.helper = "enter_keys" =>
        /\ Len(injected) <= Len(cur.text)
        /\ injected = SubSeq(cur.text, 1, Len(injected))
        /\ Len(injected) - cur.done \in {0, 1}
        /\ (pc = "ek_iter" => Len(injected) = cur.done)
        /\ (pc = "ek_iter" /\ cur.done > 0 => fired)
        /\ (cur.text = <<>> =>
               /\ cur.h = 0 /\ cur.done = 0
               /\ \A k \in DOMAIN Pending : Pending[k].src # calls)

\* enter_keys has typed a two-character text and returned.
C10_Witness ==
    /\ pc = "ret" /\ cur.helper = "enter_keys"
    /\ Len(injected) = 2 /\ cur.done = 2

\* The messages emitted since observer o was created that satisfy its predicate.
Matching(o) ==
    {k \in (o.createdAt + 1)..Len(emitted) : emitted[k].variant \in o.pred}

Max(S) == CHOOSE x \in S : \A y \in S : y <= x

\* C2: the message Observer::wait returns satisfies the predicate and was
\* emitted after Observer::new; a message that fails the predicate is never
\* recorded nor returned; wait takes no message while none is recorded.
C2_WaitReturnsMatching ==
    /\ \A i \in DOMAIN observers :
          observers[i].result # None => observers[i].result.id \in Matching(observers[i])
    /\ pc = "ow_take" => observers[cur.obs].result # None
    /\ pc = "ow_done" =>
          /\ ret.msg # None
          /\ ret.msg.id \in Matching(observers[ret.obs])
          /\ emitted[ret.msg.id].variant = ret.msg.variant

\* wait has returned although a message failing the predicate was emitted
\* after Observer::new, and one was emitted before it.
C2_Witness ==
    /\ pc = "ow_done"
    /\ observers[ret.obs].createdAt > 0
    /\ \E k \in (observers[ret.obs].createdAt + 1)..Len(emitted) :
          emitted[k].variant \notin observers[ret.obs].pred

\* A release still to be dispatched will make relm emit a message that
\* satisfies the predicate of observer o.
MatchPending(o) ==
    \E k \in DOMAIN Pending :
        Pending[k].kind = "release" /\ AppMsg(Pending[k].w) \in o.pred

\* C3: with the loop run fairly, a wait for which a matching message is
\* recorded or on its way returns; and wait leaves its loop only with a
\* message recorded, so it polls forever when none ever is.
C3_WaitLiveness ==
    /\ (pc = "ow_loop" /\ (observers[cur.obs].result # None
                           \/ MatchPending(observers[cur.obs])))
          ~> (pc = "ow_done")
    /\ [][pc = "ow_loop" /\ pc' # "ow_loop" => observers[cur.obs].result # None]_vars

\* wait has returned, after polling, a message that a dispatched click emitted.
C3_Witness ==
    /\ pc = "ow_done" /\ cur.i = 1
    /\ emitted[ret.msg.id].src > 0

\* C6: relm_observer_wait! ends in one of two ways: the one message its wait
\* took is of the named variant and its fields are bound, or it is not and
\* the macro panics with "Wrong message type.".
C6_MacroBindsOrPanics ==
    cur.helper = "macro" =>
        /\ observers[ret.obs].taken = ret.msg.id
        /\ \/ /\ panic = "none" /\ pc = "ret"
              /\ ret.msg.variant = cur.expect
              /\ bound = ret.msg.id
           \/ /\ panic = "Wrong message type." /\ pc = "ow_done"
              /\ ret.msg.variant # cur.expect
              /\ bound = -1

\* The macro has bound the fields of a message of the named variant.
C6_Witness ==
    /\ cur.helper = "macro" /\ pc = "ret"
    /\ bound = ret.msg.id /\ ret.msg.variant = cur.expect

\* The macro has panicked on a message of another variant.
C6_PanicOutcome ==
    /\ cur.helper = "macro" /\ panic = "Wrong message type."
    /\ ret.msg.variant # cur.expect

\* C7: wait leaves the cell empty, and each wait of an observer returns a
\* message emitted after the one its previous wait took.
C7_WaitConsumes ==
    /\ [](pc = "ow_done" => observers[ret.obs].result = None)
    /\ [][pc = "ow_take" /\ pc' = "ow_done" =>
             ret'.msg.id > observers[cur.obs].taken]_vars

\* A second wait has returned a second message.
C7_Witness ==
    /\ pc = "ow_done" /\ waits >= 2
    /\ ret.msg.id >= 2
    /\ observers[ret.obs].result = None

\* C8: the cell holds the latest matching message: wait returns the most
\* recently emitted message that satisfies the predicate, earlier ones are
\* overwritten.
C8_LatestMatchWins ==
    /\ \A i \in DOMAIN observers :
          observers[i].result # None =>
              observers[i].result.id = Max(Matching(observers[i]))
    /\ pc = "ow_done" => ret.msg.id = Max(Matching(observers[ret.obs]))

\* The first wait has returned the later of two matching messages.
C8_Witness ==
    /\ pc = "ow_done" /\ waits = 1
    /\ \E k \in Matching(observers[ret.obs]) : k < ret.msg.id

\* C9: Observer::wait does not panic: no borrow of the cell is held while a
\* callback may run or when the message is taken, and the message found by
\* the loop is still there when it is taken.
C9_WaitNeverPanics ==
    /\ panic \in {"none", "Wrong message type."}
    /\ \A i \in DOMAIN observers : observers[i].borrow = 0 /\ ~observers[i].poisoned
    /\ pc = "ow_take" => observers[cur.obs].result # None

\* A callback has recorded a message inside the run_loop of a wait, which
\* then returned it.
C9_Witness ==
    /\ pc = "ow_done" /\ cur.i = 1 /\ panic = "none"
    /\ ret.msg.id = Len(emitted)

\* C11: double_click returns from its wait only after the button-release of
\* its SECOND click was dispatched to the widget: none of the releases this
\* call injected is still on its way.
C11_ReturnsAfterSecondRelease ==
    (cur.helper = "double_click" /\ cur.done > 0) =>
        \A k \in DOMAIN Pending :
            ~(Pending[k].src = calls /\ Pending[k].kind = "release")

\* The button releases the running mouse helper has injected so far.
OwnReleasesInjected ==
    CASE cur.helper = "click" -> 1
      [] cur.helper = "double_click" -> IF pc = "dc_loop" THEN 1 ELSE 2
      [] OTHER -> 0

OwnReleasesPending ==
    {k \in DOMAIN Pending : Pending[k].src = calls /\ Pending[k].kind = "release"}

\* C12: the helpers' handlers do not consume the event: no emission is kept
\* from the application, so every release of the running mouse helper that
\* was dispatched has reached the application's clicked handler; and the
\* flag of the running helper is set exactly when its own signal fired, a
\* handler left by an earlier call sets no flag but its own.
C12_ObserversDoNotConsume ==
    /\ missed = 0
    /\ cur.h > 0 => (flags[cur.h] <=> fired)
    /\ cur.helper \in MouseHelpers =>
          Cardinality({k \in DOMAIN emitted : emitted[k].src = calls})
            + Cardinality(OwnReleasesPending) = OwnReleasesInjected

\* A double_click whose release handler has fired and whose click reached
\* the application, with the press handler an earlier click left connected
\* to the same widget.
C12_Witness ==
    /\ cur.helper = "double_click" /\ fired /\ flags[cur.h]
    /\ \E k \in DOMAIN emitted : emitted[k].src = calls
    /\ \E h \in DOMAIN handlers :
          h # cur.h /\ handlers[h] = [w |-> cur.w, sig |-> "button_press"]

\* The Remove messages processed while the list was not empty.
EffectiveRemoves ==
    Cardinality({k \in DOMAIN log : log[k].msg = "Remove" /\ log[k].len > 0})

\* C13: the Counter widgets in hbox are those of counters, as many as the
\* Adds minus the Removes processed on a non-empty list, never negative; a
\* Remove processed on an empty list changes neither counters nor hbox.
C13_ListMatchesBox ==
    /\ [](/\ Len(hbox) = Len(counters)
          /\ \A i \in DOMAIN counters : hbox[i] = counters[i].id
          /\ Len(counters) = Adds - EffectiveRemoves
          /\ Adds - EffectiveRemoves >= 0)
    /\ [][log' = Append(log, [msg |-> "Remove", len |-> 0]) =>
            (counters = <<>> /\ UNCHANGED <<counters, hbox>>)]_vars

\* A Remove was processed on the list emptied by an earlier Remove.
C13_Witness ==
    /\ log # <<>> /\ log[Len(log)] = [msg |-> "Remove", len |-> 0]
    /\ EffectiveRemoves >= 1
    /\ counters = <<>> /\ hbox = <<>>

\* C14: Remove takes away the most recently added Counter still present, Add
\* appends one, and either leaves the value and label of every other
\* Counter as they were.
C14_RemoveIsLifo ==
    [][Len(log') > Len(log) =>
         LET m == log'[Len(log')].msg
             n == Len(counters)
         IN  /\ m = "Add" => SubSeq(counters', 1, n) = counters
             /\ (m = "Remove" /\ n > 0) =>
                   /\ counters' = SubSeq(counters, 1, n - 1)
                   /\ \A i \in 1..n : counters[i].id <= counters[n].id
                   /\ \A i \in DOMAIN hbox' : hbox'[i] = counters[i].id]_vars

\* A Remove was processed while an older Counter showing a count stayed.
C14_Witness ==
    /\ log # <<>> /\ log[Len(log)].msg = "Remove" /\ log[Len(log)].len >= 2
    /\ \E i \in DOMAIN counters :
          counters[i].counter # 0
            /\ counters[i].counter_label = ToString(counters[i].counter)

====
